---- MODULE Spec2Model ----
(***************************************************************************)
(* Order-to-stock reconciliation pipeline of the marketplace orchestrator. *)
(*                                                                         *)
(*  - OdooService.reduceStock / increaseStock: the four-step ERP stock     *)
(*    protocol (product search, stock.quant read, write of                 *)
(*    inventory_quantity, action_apply_inventory), run by concurrent       *)
(*    callers (order webhooks, 'reduce-stock' jobs, manual endpoints).     *)
(*  - StockProcessor.syncToAllMarketplaces: the fan-out of one SKU's new   *)
(*    quantity to every marketplace except the origin.                     *)
(***************************************************************************)
EXTENDS Integers, Sequences, FiniteSets, TLC

(***************************************************************************)
(* Bounds of the model.                                                    *)
(***************************************************************************)
\* Largest on-hand quantity of a stock record (initially, and after increases).
MaxQty == 3
\* Largest quantity one call asks to reduce or increase (quantities are > 0).
MaxReq == 2
\* Largest quantity a sync task pushes to the marketplaces.
MaxSyncQty == 2

Skus == {"A1", "B2"}

\* The callers of the stock protocol that the model runs concurrently.
Runs == {"r1", "r2"}

\* Who calls the stock protocol:
\*   "webhook"  an order webhook, through processMarketplaceOrder (inline)
\*   "job"      a 'reduce-stock' queue job that carries no newStock
\*   "reduce"   POST /odoo/stock/reduce
\*   "increase" POST /odoo/stock/increase
Kinds == {"webhook", "job", "reduce", "increase"}

OrderKinds == {"webhook", "job"}

VARIABLES
    erpProducts,   \* SKUs the ERP has a product.product for
    erpQuants,     \* SKUs whose product has a stock.quant at location 8
    erpQty,        \* stock.quant.quantity per SKU (on-hand)
    erpInv,        \* stock.quant.inventory_quantity per SKU: <<>> or <<pending>>
    run,           \* per caller: position and locals of its stock-protocol call
    fan,           \* the current fan-out call of syncToAllMarketplaces
    att,           \* per marketplace: the attempt of the current fan-out
    marketplaceServices,  \* StockProcessor's registry: names with a service
    erpPartners,   \* res.partner customers of the ERP, by e-mail
    erpContacts,   \* res.partner invoice contacts of the ERP, by parent e-mail
    erpOrders,     \* sale.order records of the ERP, in order of creation
    hook,          \* per webhook delivery: position and locals of its handler
    queue,         \* the 'stock-updates' queue: its jobs, oldest first
    stockHook      \* the ERP's stock-change webhooks handled so far, in order

stockVars == <<erpProducts, erpQuants, erpQty, erpInv, run>>
syncVars == <<fan, att>>
orderVars == <<erpPartners, erpContacts, erpOrders, hook>>
restVars == <<marketplaceServices, stockHook, erpPartners, erpContacts, erpOrders, hook, queue>>
vars == <<erpProducts, erpQuants, erpQty, erpInv, run, fan, att,
          marketplaceServices, stockHook, erpPartners, erpContacts, erpOrders, hook, queue>>

(***************************************************************************)
(* Strings of the fan-out are sequences of character codes, so that        *)
(* String.prototype.toLowerCase is computed and not assumed.               *)
(***************************************************************************)
falabella == <<102, 97, 108, 97, 98, 101, 108, 108, 97>>
ripley == <<114, 105, 112, 108, 101, 121>>
paris == <<112, 97, 114, 105, 115>>
walmart == <<119, 97, 108, 109, 97, 114, 116>>

AVAILABLE_MARKETPLACES == <<falabella, ripley, paris, walmart>>

\* The origin of a job whose data carries no `source`.
UNDEFINED == <<-1>>

\* Origins the fan-out is called with: the names the webhook handlers pass,
\* the same names in another case, '' (the full resync), a name that is no
\* marketplace ("odoo") and no origin at all.
Origins ==
    { falabella,
      <<70, 65, 76, 65, 66, 69, 76, 76, 65>>,
      <<82, 105, 112, 108, 101, 121>>,
      paris,
      <<87, 97, 108, 77, 97, 114, 116>>,
      <<111, 100, 111, 111>>,
      <<>>,
      UNDEFINED }

\* String.prototype.toLowerCase on ASCII letters.
ToLowerCase(str) ==
    [i \in DOMAIN str |-> IF str[i] \in 65..90 THEN str[i] + 32 ELSE str[i]]

\* origin?.toLowerCase()
OriginLowerCase(origin) ==
    IF origin = UNDEFINED THEN UNDEFINED ELSE ToLowerCase(origin)

(***************************************************************************)
(* OdooService: the ERP stock-mutation protocol.                           *)
(***************************************************************************)
\* How a JSON-RPC round trip to the ERP can end, seen from the caller:
\*   "ok"       the ERP processed the call and answered with a result
\*   "errbody"  the ERP rejected the call and answered HTTP 200 with an error
\*              body and no result (nothing was changed)
\*   "throw"    the request failed before the ERP processed it (network, 5xx)
\*   "lost"     the ERP processed the call, the answer was lost (30 s timeout)
ReadOutcomes == {"ok", "throw"}
WriteOutcomes == {"ok", "errbody", "throw", "lost"}

ErpProcessed(out) == out \in {"ok", "lost"}

IdleRun ==
    [pc |-> "idle", kind |-> "reduce", sku |-> "A1", quantity |-> 1,
     stockQuantQuantity |-> 0, newStock |-> 0, reason |-> "",
     wrote |-> FALSE, writeOk |-> FALSE, applied |-> FALSE, applyOk |-> FALSE,
     qtyBefore |-> 0, disturbed |-> FALSE,
     result |-> [previousStock |-> 0, newStock |-> 0]]

\* The catch block of reduceStock / increaseStock: the error is rethrown.
Fail(rec, why) == [rec EXCEPT !.pc = "failed", !.reason = why]

\* A run is inside a call of the protocol.
Active(rec) == rec.pc \in {"quant", "write", "apply", "sync"}

\* const newStock = stockQuantQuantity - quantity   (currentStock + quantity)
TargetQuantity(kind, current, quantity) ==
    IF kind = "increase" THEN current + quantity ELSE current - quantity

\* The lower-bound check left out: every target quantity is accepted.
InsufficientStock_Unchecked(newStock) == FALSE

\* The lower-bound check off by one: a target of -1 is let through.
InsufficientStock_OffByOne(newStock) == newStock < -1

\* if (newStock < 0) throw new Error('Insufficient stock...')
InsufficientStock(newStock) == newStock < 0

\* if (!writeResponse.data.result) throw new Error('Failed to update ...')
\* (increaseStock does not look at the answer of the write)
WriteRejected(kind, out) == kind # "increase" /\ out = "errbody"

\* The answer of action_apply_inventory is only logged (applyResult), never
\* tested: an error body does not stop the success path.
ApplyRejected(kind, out) == FALSE

\* return { success: true, ..., previousStock: stockQuantQuantity, newStock, ... }
StockResult(rec) ==
    [previousStock |-> rec.stockQuantQuantity, newStock |-> rec.newStock]

\* @Process({ name: 'reduce-stock', concurrency: 1 }): the next 'reduce-stock'
\* job starts only when no other one is being processed.
JobSlotFree(r) == \A o \in Runs \ {r} : ~(run[o].kind = "job" /\ Active(run[o]))

\* Every other caller that has started a call on the same SKU sees the stock
\* record touched by somebody else.
Disturb(r, s, f) ==
    [o \in Runs |->
        IF o # r /\ f[o].pc # "idle" /\ f[o].sku = s
        THEN [f[o] EXCEPT !.disturbed = TRUE]
        ELSE f[o]]

\* stock.quant write { inventory_quantity: v }
ErpWritePending(s, v) == [erpInv EXCEPT ![s] = <<v>>]

\* stock.quant action_apply_inventory: the pending quantity becomes the
\* on-hand quantity and the pending quantity is cleared; with nothing pending
\* (another caller's apply took it) the call changes nothing.
ErpApplyQty(s) == IF erpInv[s] # <<>> THEN [erpQty EXCEPT ![s] = erpInv[s][1]] ELSE erpQty

ErpApplyInv(s) == [erpInv EXCEPT ![s] = <<>>]

\* Entry of reduceStock / increaseStock and step 1, searchProductBySku.
SearchProductBySku(r, k, s, q) ==
    /\ run[r].pc = "idle"
    /\ k = "job" => JobSlotFree(r)
    /\ \E out \in ReadOutcomes, logOk \in BOOLEAN :
        LET rec == [IdleRun EXCEPT !.kind = k, !.sku = s, !.quantity = q,
                                   !.qtyBefore = erpQty[s]]
        IN run' = [run EXCEPT ![r] =
                IF out = "throw" THEN Fail(rec, "RemoteCallFailed")
                ELSE IF s \notin erpProducts THEN Fail(rec, "ProductNotFound")
                ELSE IF ~logOk THEN Fail(rec, "LogWriteFailed")
                ELSE [rec EXCEPT !.pc = "quant"]]
    /\ UNCHANGED <<erpProducts, erpQuants, erpQty, erpInv, syncVars, restVars>>

\* Step 2, getStockQuant, and the computation of the target quantity.  An
\* increase that would take the record above MaxQty is not taken (the cap that
\* keeps the quantities finite).
GetStockQuant(r) ==
    LET rec == run[r]
        current == erpQty[rec.sku]
        target == TargetQuantity(rec.kind, current, rec.quantity)
        got == [rec EXCEPT !.stockQuantQuantity = current, !.newStock = target]
    IN
    /\ rec.pc = "quant"
    /\ target <= MaxQty
    /\ \E out \in ReadOutcomes, logOk \in BOOLEAN :
        run' = [run EXCEPT ![r] =
                IF out = "throw" THEN Fail(rec, "RemoteCallFailed")
                ELSE IF rec.sku \notin erpQuants THEN Fail(rec, "StockRecordNotFound")
                ELSE IF ~logOk THEN Fail(rec, "LogWriteFailed")
                ELSE IF rec.kind # "increase" /\ InsufficientStock(target)
                     THEN Fail(got, "InsufficientStock")
                ELSE [got EXCEPT !.pc = "write"]]
    /\ UNCHANGED <<erpProducts, erpQuants, erpQty, erpInv, syncVars, restVars>>

\* Step 3, the write of inventory_quantity.
WritePending(r) ==
    LET rec == run[r]
        sent == [rec EXCEPT !.wrote = TRUE]
    IN
    /\ rec.pc = "write"
    /\ \E out \in WriteOutcomes :
        LET mine == IF out \in {"throw", "lost"} THEN Fail(sent, "RemoteCallFailed")
                    ELSE IF WriteRejected(rec.kind, out) THEN Fail(sent, "WriteFailed")
                    ELSE [sent EXCEPT !.pc = "apply", !.writeOk = (out = "ok")]
            f == [run EXCEPT ![r] = mine]
        IN  /\ erpInv' = IF ErpProcessed(out)
                         THEN ErpWritePending(rec.sku, rec.newStock) ELSE erpInv
            /\ run' = IF ErpProcessed(out) THEN Disturb(r, rec.sku, f) ELSE f
    /\ UNCHANGED <<erpProducts, erpQuants, erpQty, syncVars, restVars>>

\* Step 4, action_apply_inventory, the success log and the return.
ApplyPending(r) ==
    LET rec == run[r]
        sent == [rec EXCEPT !.applied = TRUE]
    IN
    /\ rec.pc = "apply"
    /\ \E out \in WriteOutcomes, logOk \in BOOLEAN :
        LET mine == IF out \in {"throw", "lost"} THEN Fail(sent, "RemoteCallFailed")
                    ELSE IF ApplyRejected(rec.kind, out) THEN Fail(sent, "ApplyFailed")
                    ELSE IF ~logOk
                         THEN Fail([sent EXCEPT !.applyOk = (out = "ok")], "LogWriteFailed")
                    ELSE [sent EXCEPT !.applyOk = (out = "ok"),
                                      !.pc = IF rec.kind = "job" THEN "sync" ELSE "done",
                                      !.result = StockResult(rec)]
            f == [run EXCEPT ![r] = mine]
        IN  /\ erpQty' = IF ErpProcessed(out) THEN ErpApplyQty(rec.sku) ELSE erpQty
            /\ erpInv' = IF ErpProcessed(out) THEN ErpApplyInv(rec.sku) ELSE erpInv
            /\ run' = IF ErpProcessed(out) THEN Disturb(r, rec.sku, f) ELSE f
    /\ UNCHANGED <<erpProducts, erpQuants, syncVars, restVars>>

\* The rest of handleReduceStock after reduceStock returned: the fan-out (see
\* the synchronization engine below) and the end of the job, which frees the
\* 'reduce-stock' slot.
JobCompletes(r) ==
    /\ run[r].pc = "sync"
    /\ run' = [run EXCEPT ![r].pc = "done"]
    /\ UNCHANGED <<erpProducts, erpQuants, erpQty, erpInv, syncVars, restVars>>

(***************************************************************************)
(* Order webhooks: <Marketplace>Controller.handleOrderWebhook and          *)
(* OdooService.processMarketplaceOrder, which the handler awaits.          *)
(***************************************************************************)
\* The controllers that have an order webhook, by the marketplace name they
\* pass to processMarketplaceOrder and put in the jobs as `source`.
OrderSources == {falabella, ripley, paris}

OrderIds == {"1001"}

\* The customer of the order, by e-mail.
Emails == {"ana@mail.cl"}

\* items of the order as the handler maps them: { sku, quantity, ... }
OrderQuantities == {1, 2}

ItemLines == [sku : Skus, quantity : OrderQuantities]

ItemLists == {<<l>> : l \in ItemLines} \cup {<<l, m>> : l \in ItemLines, m \in ItemLines}

\* The argument of processMarketplaceOrder.  billing: customer.legalId and
\* customer.billingName are both set; shipping: shippingPrice > 0.
OrderInputs ==
    [marketplace : OrderSources, orderId : OrderIds, email : Emails,
     billing : BOOLEAN, shipping : BOOLEAN, items : ItemLists]

NoOrder ==
    [marketplace |-> <<>>, orderId |-> "", email |-> "", billing |-> FALSE,
     shipping |-> FALSE, items |-> <<>>]

Range(f) == {f[x] : x \in DOMAIN f}

\* A JSON-RPC search_read: "errbody" leaves response.data.result undefined.
SearchOutcomes == {"ok", "errbody", "throw"}

IdleHook ==
    [pc |-> "idle", order |-> NoOrder, i |-> 1, orderLines |-> <<>>,
     saleOrderId |-> 0, stockUpdates |-> <<>>, calls |-> <<>>,
     failedAt |-> "", errors |-> 0, enqueued |-> 0, signature |-> <<>>]

ToUpperCase(str) ==
    [i \in DOMAIN str |-> IF str[i] >= 97 /\ str[i] <= 122 THEN str[i] - 32 ELSE str[i]]

\* const prefix = marketplace.toUpperCase().substring(0, 3)
Prefix(marketplace) ==
    LET up == ToUpperCase(marketplace)
    IN SubSeq(up, 1, IF Len(up) < 3 THEN Len(up) ELSE 3)

\* clientOrderRef: `${prefix}-${orderId}`
ClientOrderRef(o) == <<Prefix(o.marketplace), "-", o.orderId>>

\* The catch blocks on the way out: the step's own, processMarketplaceOrder's
\* (an error log, then `throw error`) and the handler's (an error log, then
\* HttpException 500).  The webhook is answered with one error.
Abort(h, step) == [h EXCEPT !.pc = "error", !.failedAt = step, !.errors = @ + 1]

Called(h, call) == [h EXCEPT !.calls = Append(@, call)]

\* if (customer.legalId && customer.billingName)  -- step 2 is skipped otherwise
AfterCustomer(h) == IF h.order.billing THEN "billing" ELSE "lines"

\* if (shippingPrice && shippingPrice > 0)
AfterLines(h) == IF h.order.shipping THEN "shipping" ELSE "create"

\* Two deliveries with one order id are deliveries of one marketplace order:
\* a webhook and its redelivery.
SameOrder(o) ==
    \A e \in Runs :
        hook[e].pc # "idle" /\ hook[e].order.orderId = o.orderId => hook[e].order = o

\* this.configService.get('FALABELLA_WEBHOOK_SECRET'), configured
WebhookSecret == "secret"

\* crypto.createHmac('sha256', webhookSecret).update(JSON.stringify(payload)).digest('hex')
ExpectedSignature(o) == <<"hmac", WebhookSecret, o.marketplace, o.orderId>>

\* validateWebhookSignature(payload, signature)
ValidateWebhookSignature(o, signature) ==
    IF WebhookSecret = "" THEN TRUE ELSE signature = ExpectedSignature(o)

\* The signature header of a delivery of order o: the sender's, or a forged one.
Signatures(o) == {ExpectedSignature(o), <<"forged">>}

\* handleOrderWebhook up to the call of processMarketplaceOrder: the
\* 'webhook_received' log, getOrder and getOrderItems of the marketplace.
ReceiveWebhook(d, o, signature) ==
    /\ hook[d].pc = "idle"
    /\ SameOrder(o)
    /\ \E logOk \in BOOLEAN, fetchOk \in BOOLEAN :
        LET h == [IdleHook EXCEPT !.order = o, !.signature = signature]
        IN hook' = [hook EXCEPT ![d] =
            IF logOk /\ fetchOk
            THEN [h EXCEPT !.pc = "customer"]
            ELSE Abort(h, "fetch")]
    /\ UNCHANGED <<stockVars, syncVars, marketplaceServices, stockHook,
                   erpPartners, erpContacts, erpOrders, queue>>

\* Step 1: searchPartnerByEmail.  `response.data.result?.[0] || null`: an
\* error body reads as "no such customer".
SearchPartnerByEmail(d) ==
    LET h == Called(hook[d], <<"searchPartnerByEmail">>)
    IN
    /\ hook[d].pc = "customer"
    /\ \E out \in SearchOutcomes, logOk \in BOOLEAN :
        hook' = [hook EXCEPT ![d] =
            IF out = "throw" \/ ~logOk THEN Abort(h, "customer")
            ELSE IF out = "ok" /\ h.order.email \in Range(erpPartners)
                 THEN [h EXCEPT !.pc = AfterCustomer(h)]
            ELSE [h EXCEPT !.pc = "createPartner"]]
    /\ UNCHANGED <<stockVars, syncVars, marketplaceServices, stockHook,
                   erpPartners, erpContacts, erpOrders, queue>>

\* Step 1: createPartner.  if (!partnerId) throw.
CreatePartner(d) ==
    LET h == Called(hook[d], <<"createPartner">>)
    IN
    /\ hook[d].pc = "createPartner"
    /\ \E out \in WriteOutcomes, logOk \in BOOLEAN :
        /\ erpPartners' = IF ErpProcessed(out)
                          THEN Append(erpPartners, h.order.email) ELSE erpPartners
        /\ hook' = [hook EXCEPT ![d] =
            IF out # "ok" \/ ~logOk THEN Abort(h, "customer")
            ELSE [h EXCEPT !.pc = AfterCustomer(h)]]
    /\ UNCHANGED <<stockVars, syncVars, marketplaceServices, stockHook,
                   erpContacts, erpOrders, queue>>

\* Step 2: searchInvoiceContact.
SearchInvoiceContact(d) ==
    LET h == Called(hook[d], <<"searchInvoiceContact">>)
    IN
    /\ hook[d].pc = "billing"
    /\ \E out \in SearchOutcomes, logOk \in BOOLEAN :
        hook' = [hook EXCEPT ![d] =
            IF out = "throw" \/ ~logOk THEN Abort(h, "billing")
            ELSE IF out = "ok" /\ h.order.email \in Range(erpContacts)
                 THEN [h EXCEPT !.pc = "lines"]
            ELSE [h EXCEPT !.pc = "createContact"]]
    /\ UNCHANGED <<stockVars, syncVars, marketplaceServices, stockHook,
                   erpPartners, erpContacts, erpOrders, queue>>

\* Step 2: createInvoiceContact.  if (!contactId) throw.
CreateInvoiceContact(d) ==
    LET h == Called(hook[d], <<"createInvoiceContact">>)
    IN
    /\ hook[d].pc = "createContact"
    /\ \E out \in WriteOutcomes, logOk \in BOOLEAN :
        /\ erpContacts' = IF ErpProcessed(out)
                          THEN Append(erpContacts, h.order.email) ELSE erpContacts
        /\ hook' = [hook EXCEPT ![d] =
            IF out # "ok" \/ ~logOk THEN Abort(h, "billing")
            ELSE [h EXCEPT !.pc = "lines"]]
    /\ UNCHANGED <<stockVars, syncVars, marketplaceServices, stockHook,
                   erpPartners, erpOrders, queue>>

\* The not-found check of the line resolution left out.
ProductResolved_Unchecked(sku) == TRUE

\* const product = response.data.result?.[0]; if (!product) throw ...
ProductResolved(sku) == sku \in erpProducts

\* Step 3: searchProductBySku of the line at position i; the line is pushed
\* to orderLines.
SearchLineProduct(d) ==
    LET item == hook[d].order.items[hook[d].i]
        h == Called(hook[d], <<"searchProductBySku", item.sku>>)
        last == hook[d].i = Len(hook[d].order.items)
    IN
    /\ hook[d].pc = "lines"
    /\ \E out \in ReadOutcomes, logOk \in BOOLEAN :
        hook' = [hook EXCEPT ![d] =
            IF out = "throw" \/ ~ProductResolved(item.sku) \/ ~logOk
            THEN Abort(h, "lines")
            ELSE [h EXCEPT !.orderLines = Append(@, [kind |-> "item", sku |-> item.sku,
                                                     quantity |-> item.quantity]),
                           !.i = IF last THEN 1 ELSE @ + 1,
                           !.pc = IF last THEN AfterLines(h) ELSE "lines"]]
    /\ UNCHANGED <<stockVars, syncVars, marketplaceServices, stockHook,
                   erpPartners, erpContacts, erpOrders, queue>>

\* skuMap of searchShippingProduct.
ShippingSku(marketplace) ==
    CASE marketplace = falabella -> "ENVFALLA"
      [] marketplace = ripley -> "ENVRIP"
      [] marketplace = paris -> "ENVPAR"
      [] OTHER -> "ENV"

\* A shipping lookup whose failure is thrown on instead of being caught.
ShippingLookupFailed_Abort(h) == Abort(h, "shipping")

\* catch (e) { this.logger.warn(...) }: the order goes on to step 4 with the
\* lines it has.
ShippingLookupFailed(h) == [h EXCEPT !.pc = "create"]

\* The shipping line: try { searchShippingProduct; orderLines.push } catch
\* { warn }.  Whatever makes the lookup throw (no such product, a failed
\* request, a failed log write) leaves the order without a shipping line.
SearchShippingProduct(d) ==
    LET h == Called(hook[d], <<"searchShippingProduct">>)
        sku == ShippingSku(h.order.marketplace)
    IN
    /\ hook[d].pc = "shipping"
    /\ \E found \in BOOLEAN :
        hook' = [hook EXCEPT ![d] =
            IF found
            THEN [h EXCEPT !.pc = "create",
                           !.orderLines = Append(@, [kind |-> "shipping", sku |-> sku,
                                                     quantity |-> 1])]
            ELSE ShippingLookupFailed(h)]
    /\ UNCHANGED <<stockVars, syncVars, marketplaceServices, stockHook,
                   erpPartners, erpContacts, erpOrders, queue>>

\* Step 4: createSaleOrder.  if (!orderId) throw.  No sale.order is looked up
\* by client_order_ref before the create.
CreateSaleOrder(d) ==
    LET h == Called(hook[d], <<"createSaleOrder">>)
        order == [ref |-> ClientOrderRef(h.order), lines |-> h.orderLines,
                  state |-> "draft", by |-> d]
    IN
    /\ hook[d].pc = "create"
    /\ \E out \in WriteOutcomes, logOk \in BOOLEAN :
        /\ erpOrders' = IF ErpProcessed(out) THEN Append(erpOrders, order) ELSE erpOrders
        /\ hook' = [hook EXCEPT ![d] =
            IF out # "ok" \/ ~logOk THEN Abort(h, "create")
            ELSE [h EXCEPT !.pc = "confirm", !.saleOrderId = Len(erpOrders) + 1]]
    /\ UNCHANGED <<stockVars, syncVars, marketplaceServices, stockHook,
                   erpPartners, erpContacts, queue>>

\* A catch block that cancels the sales order it had created.
ErpAfterAbort_Cancel(orders, h) ==
    IF h.saleOrderId \in DOMAIN orders
    THEN [orders EXCEPT ![h.saleOrderId].state = "cancel"]
    ELSE orders

\* The catch block of processMarketplaceOrder writes an error log and rethrows;
\* it issues no ERP call: the sale.order records stay as they are.
ErpAfterAbort(orders, h) == orders

\* The answer of action_confirm is only logged (response.data), never tested:
\* an error body does not stop confirmSaleOrder from returning true.
ConfirmRejected(out) == FALSE

\* Step 5: confirmSaleOrder.
ConfirmSaleOrder(d) ==
    LET h == Called(hook[d], <<"confirmSaleOrder">>)
    IN
    /\ hook[d].pc = "confirm"
    /\ \E out \in WriteOutcomes, logOk \in BOOLEAN :
        LET aborts == out \in {"throw", "lost"} \/ ConfirmRejected(out) \/ ~logOk
            orders == IF ErpProcessed(out)
                      THEN [erpOrders EXCEPT ![h.saleOrderId].state = "sale"]
                      ELSE erpOrders
        IN  /\ erpOrders' = IF aborts THEN ErpAfterAbort(orders, h) ELSE orders
            /\ hook' = [hook EXCEPT ![d] =
                    IF aborts THEN Abort(h, "confirm")
                    ELSE [h EXCEPT !.pc = "reduce", !.i = 1]]
    /\ UNCHANGED <<stockVars, syncVars, marketplaceServices, stockHook,
                   erpPartners, erpContacts, queue>>

\* Every line reduced by one unit, whatever its quantity.
ReduceQuantity_One(item) == 1

\* this.reduceStock(item.sku, item.quantity, orderId)
ReduceQuantity(item) == item.quantity

\* Step 6: for (const item of items) await this.reduceStock(...): the call for
\* the line at position i starts.  The handler d runs the protocol as run[d].
ReduceLine(d) ==
    /\ hook[d].pc = "reduce"
    /\ LET item == hook[d].order.items[hook[d].i]
       IN SearchProductBySku(d, "webhook", item.sku, ReduceQuantity(item))

\* A reduceStock failure that is only logged: the loop goes on to the next
\* line and the materialization returns without a stock update for the line.
ReduceFailed_Skip(h) ==
    LET last == h.i = Len(h.order.items)
    IN [h EXCEPT !.i = IF last THEN 1 ELSE @ + 1,
                 !.pc = IF last THEN "enqueue" ELSE "reduce"]

\* reduceStock threw inside the loop over the lines: nothing catches it before
\* the catch block of processMarketplaceOrder, which rethrows to the handler.
ReduceFailed(h) == Abort(h, "reduce")

\* Step 6: reduceStock of the line at position i has returned or thrown;
\* stockUpdates.push(result).  After the last line processMarketplaceOrder
\* returns { success, saleOrderId, stockUpdates, ... } to the handler.
ReduceReturns(d) ==
    LET rec == run[d]
        h == Called(hook[d], <<"reduceStock", rec.sku, rec.quantity>>)
        last == hook[d].i = Len(hook[d].order.items)
    IN
    /\ hook[d].pc = "reduce"
    /\ rec.pc \in {"done", "failed"}
    /\ hook' = [hook EXCEPT ![d] =
            IF rec.pc = "failed" THEN ReduceFailed(h)
            ELSE [h EXCEPT !.stockUpdates = Append(@, [sku |-> rec.sku,
                                previousStock |-> rec.result.previousStock,
                                newStock |-> rec.result.newStock]),
                           !.i = IF last THEN 1 ELSE @ + 1,
                           !.pc = IF last THEN "enqueue" ELSE "reduce"]]
    /\ run' = [run EXCEPT ![d] = IdleRun]
    /\ erpOrders' = IF rec.pc = "failed" THEN ErpAfterAbort(erpOrders, h) ELSE erpOrders
    /\ UNCHANGED <<erpProducts, erpQuants, erpQty, erpInv, syncVars,
                   marketplaceServices, stockHook, erpPartners, erpContacts, queue>>

\* result.stockUpdates.find((s) => s.sku === item.sku): the first entry with
\* the SKU, <<>> for undefined.
FindStockUpdate(stockUpdates, sku) ==
    LET hits == {k \in DOMAIN stockUpdates : stockUpdates[k].sku = sku}
    IN IF hits = {} THEN <<>>
       ELSE <<stockUpdates[CHOOSE k \in hits : \A l \in hits : k <= l]>>

\* The data of the 'reduce-stock' job a handler adds for a line.
ReduceStockJob(h, item, stockUpdate) ==
    [name |-> "reduce-stock", orderId |-> h.order.orderId, sku |-> item.sku,
     quantity |-> item.quantity, source |-> h.order.marketplace,
     newStock |-> <<stockUpdate.newStock>>]

\* What the queue keeps of a job: its data, its state, the attempts made; and,
\* for the record, the delivery and the line it was added for, and the
\* reduceStock and updateStock calls its last attempt made.
Enqueued(data, d, line) ==
    [data |-> data, state |-> "waiting", attemptsMade |-> 0, by |-> d, line |-> line,
     reduces |-> 0, updates |-> 0, failedAt |-> "none"]

\* for (const item of items) { const stockUpdate = ...find(...);
\*   if (stockUpdate) await this.stockQueue.add('reduce-stock', {...}) }
\* A failed add throws into the handler's catch block.
EnqueueLine(d) ==
    LET h == hook[d]
        item == h.order.items[h.i]
        found == FindStockUpdate(h.stockUpdates, item.sku)
    IN
    /\ h.pc = "enqueue"
    /\ h.i <= Len(h.order.items)
    /\ \E addOk \in BOOLEAN :
        IF found = <<>>
        THEN /\ hook' = [hook EXCEPT ![d].i = @ + 1]
             /\ UNCHANGED queue
        ELSE IF addOk
        THEN /\ queue' = Append(queue, Enqueued(ReduceStockJob(h, item, found[1]), d, h.i))
             /\ hook' = [hook EXCEPT ![d].i = @ + 1, ![d].enqueued = @ + 1]
        ELSE /\ hook' = [hook EXCEPT ![d] = Abort(h, "enqueue")]
             /\ UNCHANGED queue
    /\ UNCHANGED <<stockVars, syncVars, marketplaceServices, stockHook,
                   erpPartners, erpContacts, erpOrders>>

\* After the loop: the 'webhook_processing_completed' log and the 200 answer.
Respond(d) ==
    /\ hook[d].pc = "enqueue"
    /\ hook[d].i > Len(hook[d].order.items)
    /\ \E logOk \in BOOLEAN :
        hook' = [hook EXCEPT ![d] =
            IF logOk THEN [hook[d] EXCEPT !.pc = "ok"] ELSE Abort(hook[d], "respond")]
    /\ UNCHANGED <<stockVars, syncVars, marketplaceServices, stockHook,
                   erpPartners, erpContacts, erpOrders, queue>>

(***************************************************************************)
(* Initial states.                                                         *)
(***************************************************************************)
\* The ERP catalogue: every SKU known, a product without a stock record at
\* the location, or a SKU the ERP has no product for.
Catalogs == {<<Skus, Skus>>, <<Skus, {"A1"}>>, <<{"A1"}, {"A1"}>>}

IdleFan == [status |-> "idle", sku |-> "A1", newStock |-> 0, origin |-> UNDEFINED,
            report |-> [m \in {} |-> [success |-> FALSE]]]

NoAttempt == [state |-> "none", calls |-> 0, args |-> <<>>, updated |-> FALSE]

InitErp ==
    /\ \E c \in Catalogs : erpProducts = c[1] /\ erpQuants = c[2]
    /\ erpQty \in [Skus -> 0..MaxQty]
    /\ \A s \in Skus \ erpQuants : erpQty[s] = 0
    /\ erpInv = [s \in Skus |-> <<>>]

InitRuns == run = [r \in Runs |-> IdleRun]

InitSync ==
    /\ fan = IdleFan
    /\ att = [i \in DOMAIN AVAILABLE_MARKETPLACES |-> NoAttempt]

\* The keys the constructor of StockProcessor sets in marketplaceServices.
ServiceNames == {falabella, ripley, paris, walmart}

\* No webhook received, nothing in the queue, no sale.order yet.
InitOrders ==
    /\ erpContacts = <<>>
    /\ erpOrders = <<>>
    /\ hook = [d \in Runs |-> IdleHook]
    /\ queue = <<>>
    /\ stockHook = <<>>

(***************************************************************************)
(* SpecStock: concurrent callers of the ERP stock protocol.                *)
(***************************************************************************)
InitStock ==
    /\ InitErp /\ InitRuns /\ InitSync /\ InitOrders
    /\ marketplaceServices = ServiceNames
    /\ erpPartners = <<>>

NextStock ==
    \/ \E r \in Runs, k \in Kinds, s \in Skus, q \in 1..MaxReq :
            SearchProductBySku(r, k, s, q)
    \/ \E r \in Runs : GetStockQuant(r)
    \/ \E r \in Runs : WritePending(r)
    \/ \E r \in Runs : ApplyPending(r)
    \/ \E r \in Runs : JobCompletes(r)

SpecStock == InitStock /\ [][NextStock]_vars

(***************************************************************************)
(* StockProcessor.syncToAllMarketplaces: the fan-out.                      *)
(***************************************************************************)
\* The origin compared as written, without lower-casing either side.
TargetsToSync_CaseSensitive(origin) ==
    {i \in DOMAIN AVAILABLE_MARKETPLACES : AVAILABLE_MARKETPLACES[i] # origin}

\* The last marketplace of the registry left out of the fan-out.
TargetsToSync_LastSkipped(origin) ==
    {i \in DOMAIN AVAILABLE_MARKETPLACES :
        /\ i < Len(AVAILABLE_MARKETPLACES)
        /\ ToLowerCase(AVAILABLE_MARKETPLACES[i]) # OriginLowerCase(origin)}

\* AVAILABLE_MARKETPLACES.filter((mp) => mp.toLowerCase() !== origin?.toLowerCase())
\* (as positions in AVAILABLE_MARKETPLACES)
TargetsToSync(origin) ==
    {i \in DOMAIN AVAILABLE_MARKETPLACES :
        ToLowerCase(AVAILABLE_MARKETPLACES[i]) # OriginLowerCase(origin)}

\* service.updateStock([{ sku, quantity: newStock }])
UpdateStockArgs(sku, newStock) == <<[sku |-> sku, quantity |-> newStock]>>

\* The callback without its `if (!service)` test: updateStock is invoked
\* whether or not the registry has a service.
FirstStep_NoServiceTest(i, sku, newStock) ==
    [state |-> "inflight", calls |-> 1,
     args |-> UpdateStockArgs(sku, newStock), updated |-> FALSE]

\* The callback of targetsToSync.map up to its first await: without a service
\* it returns a failure at once, otherwise updateStock has been invoked.
FirstStep(i, sku, newStock) ==
    IF AVAILABLE_MARKETPLACES[i] \notin marketplaceServices
    THEN [state |-> "failure", calls |-> 0, args |-> <<>>, updated |-> FALSE]
    ELSE [state |-> "inflight", calls |-> 1,
          args |-> UpdateStockArgs(sku, newStock), updated |-> FALSE]

\* How the callback of one target ends once updateStock has settled:
\*   try { await updateStock; await logs.create(success); return success }
\*   catch { await logs.create(failed); return failure }
\* "rejected": the log write inside the catch block threw, so the callback's
\* promise rejects.
CallbackEnd(ok, logOk, catchLogOk) ==
    IF ok /\ logOk THEN "success"
    ELSE IF catchLogOk THEN "failure"
    ELSE "rejected"

\* for (const result of settledResults) results[result.marketplace] = {...}
BuildReport(a, targets) ==
    [m \in {AVAILABLE_MARKETPLACES[i] : i \in targets} |->
        LET i == CHOOSE j \in targets : AVAILABLE_MARKETPLACES[j] = m
        IN [success |-> a[i].state = "success"]]

\* await Promise.all(syncPromises): rejects as soon as one callback rejects,
\* resolves once every callback has returned.
PromiseAll(f, a, justEnded) ==
    IF f.status # "running" THEN f
    ELSE IF justEnded = "rejected" THEN [f EXCEPT !.status = "thrown"]
    ELSE IF \A i \in DOMAIN a : a[i].state # "inflight"
         THEN [f EXCEPT !.status = "returned",
                        !.report = BuildReport(a, TargetsToSync(f.origin))]
    ELSE f

NoneInFlight == \A i \in DOMAIN att : att[i].state # "inflight"

\* A caller (handleReduceStock, handleSyncStock) calls syncToAllMarketplaces:
\* the filter and the synchronous part of every callback of the map.
SyncToAllMarketplaces(s, n, o) ==
    /\ fan.status = "idle"
    /\ LET a == [i \in DOMAIN AVAILABLE_MARKETPLACES |->
                    IF i \in TargetsToSync(o) THEN FirstStep(i, s, n) ELSE NoAttempt]
           f == [status |-> "running", sku |-> s, newStock |-> n, origin |-> o,
                 report |-> IdleFan.report]
       IN /\ att' = a
          /\ fan' = PromiseAll(f, a, "none")
    /\ UNCHANGED <<stockVars, restVars>>

\* A callback whose catch block gives the unit back to the ERP when the
\* marketplace refused the update.
ErpAfterUpdate_Restore(qty, sku, ok) ==
    IF ok THEN qty ELSE [qty EXCEPT ![sku] = qty[sku] + 1]

\* The ERP quantities after the callback of one target has ended: the
\* callback calls the adapter and the log only, whatever updateStock answers.
ErpAfterUpdate(qty, sku, ok) == qty

\* updateStock of one target settles; its callback runs to its end, and
\* Promise.all settles if this was the callback it was waiting for.
UpdateStockSettles(i) ==
    /\ att[i].state = "inflight"
    /\ \E ok \in BOOLEAN, logOk \in BOOLEAN, catchLogOk \in BOOLEAN :
        LET end == CallbackEnd(ok, logOk, catchLogOk)
            a == [att EXCEPT ![i].state = end, ![i].updated = ok]
        IN  /\ att' = a
            /\ fan' = PromiseAll(fan, a, end)
            /\ erpQty' = ErpAfterUpdate(erpQty, fan.sku, ok)
    /\ UNCHANGED <<erpProducts, erpQuants, erpInv, run, restVars>>

\* The job that called the fan-out is over and the queue hands the processor
\* its next job: `results` and the promises are locals of the call that ended.
\* The model takes the next job once the attempts of the last one are over.
NextJob ==
    /\ fan.status \in {"returned", "thrown"}
    /\ NoneInFlight
    /\ fan' = IdleFan
    /\ att' = [i \in DOMAIN AVAILABLE_MARKETPLACES |-> NoAttempt]
    /\ UNCHANGED <<stockVars, restVars>>

(***************************************************************************)
(* SpecSync: fan-out calls, one after the other.                           *)
(***************************************************************************)
\* The fan-out issues no ERP call: the ERP is the full catalogue, untouched.
InitErpStocked ==
    /\ erpProducts = Skus /\ erpQuants = Skus
    /\ erpQty = [s \in Skus |-> MaxQty]
    /\ erpInv = [s \in Skus |-> <<>>]

\* this.marketplaceServices.set(name, service) for the four names: a name
\* maps to undefined when the constructor was given no service for it.
InitFanout ==
    /\ InitErpStocked /\ InitRuns /\ InitSync /\ InitOrders
    /\ marketplaceServices \in SUBSET ServiceNames
    /\ erpPartners = <<>>

NextSync ==
    \/ \E s \in Skus, n \in 0..MaxSyncQty, o \in Origins : SyncToAllMarketplaces(s, n, o)
    \/ \E i \in DOMAIN AVAILABLE_MARKETPLACES : UpdateStockSettles(i)
    \/ NextJob

SpecSync == InitFanout /\ [][NextSync]_vars

(***************************************************************************)
(* SpecOrder: an order webhook, from its delivery to the answer.            *)
(***************************************************************************)
\* The ERP when the webhooks arrive: any catalogue, MaxReq units of every
\* stocked SKU, the customer known or not.
InitOrder ==
    /\ \E c \in Catalogs : erpProducts = c[1] /\ erpQuants = c[2]
    /\ erpQty = [s \in Skus |-> IF s \in erpQuants THEN MaxReq ELSE 0]
    /\ erpInv = [s \in Skus |-> <<>>]
    /\ InitRuns /\ InitSync /\ InitOrders
    /\ marketplaceServices = ServiceNames
    /\ \E known \in SUBSET Emails :
        erpPartners = IF known = {} THEN <<>> ELSE <<CHOOSE e \in known : TRUE>>

\* SpecOrder follows one delivery through its handler.
Handlers == {"r1"}

NextOrder ==
    \/ \E d \in Handlers, o \in OrderInputs : ReceiveWebhook(d, o, ExpectedSignature(o))
    \/ \E d \in Handlers : SearchPartnerByEmail(d)
    \/ \E d \in Handlers : CreatePartner(d)
    \/ \E d \in Handlers : SearchInvoiceContact(d)
    \/ \E d \in Handlers : CreateInvoiceContact(d)
    \/ \E d \in Handlers : SearchLineProduct(d)
    \/ \E d \in Handlers : SearchShippingProduct(d)
    \/ \E d \in Handlers : CreateSaleOrder(d)
    \/ \E d \in Handlers : ConfirmSaleOrder(d)
    \/ \E d \in Handlers : ReduceLine(d)
    \/ \E d \in Handlers : GetStockQuant(d)
    \/ \E d \in Handlers : WritePending(d)
    \/ \E d \in Handlers : ApplyPending(d)
    \/ \E d \in Handlers : ReduceReturns(d)
    \/ \E d \in Handlers : EnqueueLine(d)
    \/ \E d \in Handlers : Respond(d)

SpecOrder == InitOrder /\ [][NextOrder]_vars

(***************************************************************************)
(* Claims about the ERP stock protocol (checked under SpecStock).          *)
(***************************************************************************)
ReduceKinds == Kinds \ {"increase"}

Succeeded(rec) == rec.pc \in {"sync", "done"}

\* A run has read the stock record and its apply call has not ended yet.
InWindow(rec) == rec.pc \in {"write", "apply"}

\* A run is about to issue a stock-record read, a write-pending or an apply.
AtProtocolCall(rec) == rec.pc \in {"quant", "write", "apply"}

\* C1: between one order-processing run's stock-record read and its apply call
\* for a SKU, no other order-processing run issues a stock-record read, a
\* write-pending or an apply call for the same SKU.
C1_NoInterleavedStockCalls ==
    [][\A r1, r2 \in Runs :
          ( /\ r1 # r2
            /\ run[r1].kind \in OrderKinds /\ InWindow(run[r1])
            /\ run[r2].kind \in OrderKinds /\ AtProtocolCall(run[r2])
            /\ run[r2].sku = run[r1].sku )
          => run'[r2].pc = run[r2].pc]_vars

\* C2: in every reachable state the on-hand quantity of every SKU's stock
\* record is >= 0.
C2_StockNeverNegative == \A s \in Skus : erpQty[s] >= 0

\* C2 witness: two calls on one SKU overlapped, both returned success, and the
\* stock record ended at 0.
C2_Witness ==
    \E r1, r2 \in Runs :
        /\ r1 # r2 /\ run[r1].sku = run[r2].sku
        /\ run[r1].kind = "webhook" /\ run[r2].kind = "increase"
        /\ Succeeded(run[r1]) /\ Succeeded(run[r2])
        /\ run[r1].disturbed /\ run[r2].disturbed
        /\ erpQty[run[r1].sku] = 0

\* C3: a ReduceStock that fails because the product is not found, the stock
\* record is not found or the quantity would go below zero has issued neither
\* the write-pending nor the apply call and ends in an error, and the ERP
\* quantity afterwards is the quantity before the call (as long as no other
\* caller touched the record); conversely a call in one of these three cases
\* never gets as far as a write.
C3_FailedReduceWritesNothing ==
    \A r \in Runs :
        LET rec == run[r] IN
        rec.kind \in ReduceKinds =>
          /\ ( rec.pc = "failed" /\ rec.reason \in
                   {"ProductNotFound", "StockRecordNotFound", "InsufficientStock"} )
             => /\ ~rec.wrote /\ ~rec.applied
                /\ ~Succeeded(rec)
                /\ ~rec.disturbed => erpQty[rec.sku] = rec.qtyBefore
          /\ ( rec.wrote \/ rec.applied \/ Succeeded(rec) )
             => /\ rec.sku \in erpProducts /\ rec.sku \in erpQuants
                /\ rec.stockQuantQuantity - rec.quantity >= 0

\* C3 witness: a reduction of 2 on a stock record holding 1 failed with
\* InsufficientStock, nobody else touched the record, and it still holds 1.
C3_Witness ==
    \E r \in Runs :
        /\ run[r].kind \in ReduceKinds
        /\ run[r].pc = "failed" /\ run[r].reason = "InsufficientStock"
        /\ run[r].quantity = 2 /\ run[r].stockQuantQuantity = 1
        /\ ~run[r].disturbed /\ erpQty[run[r].sku] = 1

\* C4: in every execution of ReduceStock the write-pending call is issued
\* before the apply call, the apply call is issued only after the write-pending
\* call succeeded, and success is returned only if both calls were issued and
\* both succeeded.
C4_WriteThenApplyBothSucceed ==
    \A r \in Runs :
        LET rec == run[r] IN
        rec.kind \in ReduceKinds =>
          /\ rec.applied => (rec.wrote /\ rec.writeOk)
          /\ Succeeded(rec) =>
                (rec.wrote /\ rec.writeOk /\ rec.applied /\ rec.applyOk)

\* C5: if the apply call fails after the write-pending call succeeded (it
\* throws, or the ERP answers with an error body), ReduceStock ends in an
\* error and never returns success.
C5_ApplyFailureIsAnError ==
    \A r \in Runs :
        LET rec == run[r] IN
        ( rec.kind \in ReduceKinds /\ rec.writeOk /\ rec.applied /\ ~rec.applyOk )
            => ~Succeeded(rec)

\* C6: a successful ReduceStock(sku, q) returns previousStock = the quantity it
\* read and newStock = previousStock - q, and when no other caller touched the
\* SKU's stock record the ERP quantity after the call is the returned newStock.
C6_ResultMatchesErp ==
    \A r \in Runs :
        LET rec == run[r] IN
        ( rec.kind \in ReduceKinds /\ Succeeded(rec) ) =>
          /\ rec.result.previousStock = rec.stockQuantQuantity
          /\ rec.result.newStock = rec.result.previousStock - rec.quantity
          /\ ~rec.disturbed => erpQty[rec.sku] = rec.result.newStock

(***************************************************************************)
(* Claims about the fan-out (checked under SpecSync).                      *)
(***************************************************************************)
Ended == fan.status \in {"returned", "thrown"}

IsOrigin(i) == ToLowerCase(AVAILABLE_MARKETPLACES[i]) = OriginLowerCase(fan.origin)

\* C7: for every SKU, quantity and origin, the fan-out never invokes
\* UpdateStock on the adapter whose name equals the origin, compared without
\* regard to case.
C7_OriginNeverUpdated ==
    \A i \in DOMAIN AVAILABLE_MARKETPLACES :
        IsOrigin(i) => (att[i].calls = 0 /\ att[i].state = "none")

\* C7 witness: a fan-out with origin "FALABELLA" returned; falabella was not
\* called and the three others were.
C7_Witness ==
    /\ fan.status = "returned"
    /\ fan.origin = <<70, 65, 76, 65, 66, 69, 76, 76, 65>>
    /\ att[1].calls = 0
    /\ \A i \in 2..4 : att[i].calls = 1

\* C8: whatever targets fail, the fan-out returns a report with exactly one
\* entry per target (every marketplace but the origin), each entry marked
\* success exactly when that target's own UpdateStock succeeded, and no
\* exception escapes the fan-out.
C8_ReportPerTarget ==
    fan.status # "running" /\ fan.status # "idle" =>
        /\ fan.status = "returned"
        /\ DOMAIN fan.report =
              {AVAILABLE_MARKETPLACES[i] : i \in {j \in DOMAIN att : ~IsOrigin(j)}}
        /\ \A i \in DOMAIN att :
              ~IsOrigin(i) =>
                  fan.report[AVAILABLE_MARKETPLACES[i]].success = att[i].updated

\* C9: for one sync task UpdateStock is invoked exactly once on every
\* configured marketplace that is not the origin, with the single item
\* {sku, newQuantity} of that task, whether other targets succeed or fail.
C9_EachTargetUpdatedOnce ==
    fan.status # "idle" =>
        \A i \in DOMAIN AVAILABLE_MARKETPLACES :
            ( ~IsOrigin(i) /\ AVAILABLE_MARKETPLACES[i] \in marketplaceServices ) =>
                /\ att[i].calls = 1
                /\ att[i].args = <<[sku |-> fan.sku, quantity |-> fan.newStock]>>

\* C9 witness: a task from falabella for quantity 2 ended with ripley's update
\* failed and paris's and walmart's done; each of the three was called once.
C9_Witness ==
    /\ fan.status = "returned" /\ fan.origin = falabella /\ fan.newStock = 2
    /\ att[1].calls = 0
    /\ att[2].state = "failure" /\ ~att[2].updated /\ att[2].calls = 1
    /\ att[3].state = "success" /\ att[3].calls = 1
    /\ att[4].state = "success" /\ att[4].calls = 1

\* C10: the fan-out call ends (returns its report or terminates otherwise)
\* only after every target's UpdateStock attempt has completed: no attempt of
\* the task is in flight when the call has ended.
C10_EndsAfterAllTargets ==
    Ended => \A i \in DOMAIN att : att[i].state # "inflight"

(***************************************************************************)
(* Claims about order materialization (checked under SpecOrder).           *)
(***************************************************************************)
\* The step of processMarketplaceOrder an ERP call belongs to.
StepRank(call) ==
    CASE call[1] \in {"searchPartnerByEmail", "createPartner"} -> 1
      [] call[1] \in {"searchInvoiceContact", "createInvoiceContact"} -> 2
      [] call[1] \in {"searchProductBySku", "searchShippingProduct"} -> 3
      [] call[1] = "createSaleOrder" -> 4
      [] call[1] = "confirmSaleOrder" -> 5
      [] call[1] = "reduceStock" -> 6

\* The handler is at or past step 6: confirmSaleOrder has returned.
PastConfirm(h) == h.pc \in {"reduce", "enqueue", "ok"} \/ h.failedAt \in {"reduce", "enqueue", "respond"}

\* The ERP holds the handler's sale.order, confirmed.
OrderConfirmed(h) ==
    /\ h.saleOrderId \in DOMAIN erpOrders
    /\ erpOrders[h.saleOrderId].state = "sale"

\* C11: the calls of a materialization are made in the order of the steps
\* (customer, billing contact, lines, create, confirm, reduce), and a step
\* that fails stops it: stock is reduced, and the webhook answered with
\* success, only for a sales order the ERP has confirmed.
C11_StepsInOrderFailFast ==
    \A d \in Runs :
        LET h == hook[d] IN
        /\ \A j \in DOMAIN h.calls, k \in DOMAIN h.calls :
                j < k => StepRank(h.calls[j]) <= StepRank(h.calls[k])
        /\ PastConfirm(h) => OrderConfirmed(h)

\* Some line of the order has a SKU the ERP has no product for.
HasUnresolvedLine(h) == \E k \in DOMAIN h.order.items : h.order.items[k].sku \notin erpProducts

\* The on-hand quantities SpecOrder starts from.
InitialQty == [s \in Skus |-> IF s \in erpQuants THEN MaxReq ELSE 0]

\* C12: when a line of the order has a SKU that resolves to no ERP product,
\* the ERP gets no sales order from that order, reduceStock is not called for
\* any of its lines, the stock is as it was, and the webhook is not answered
\* with success.
C12_UnresolvedLineNothingWritten ==
    \A d \in Handlers :
        LET h == hook[d] IN
        HasUnresolvedLine(h) =>
            /\ \A k \in DOMAIN erpOrders : erpOrders[k].by # d
            /\ h.saleOrderId = 0
            /\ \A k \in DOMAIN h.calls : h.calls[k][1] # "reduceStock"
            /\ run[d].pc = "idle"
            /\ erpQty = InitialQty /\ erpInv = [s \in Skus |-> <<>>]
            /\ h.pc \notin {"create", "confirm", "reduce", "enqueue", "ok"}
            /\ queue = <<>>

\* An order whose first line resolved and whose second line did not.
C12_Witness ==
    \E d \in Handlers :
        /\ hook[d].failedAt = "lines"
        /\ Len(hook[d].order.items) = 2
        /\ hook[d].order.items[1].sku \in erpProducts
        /\ hook[d].order.items[2].sku \notin erpProducts
        /\ Len(hook[d].orderLines) = 1

(***************************************************************************)
(* SpecRedelivery: an order webhook and its redelivery, handled            *)
(* concurrently.                                                           *)
(***************************************************************************)
\* The redelivered orders are Falabella orders of one unit of A1.
RedeliveredOrders ==
    {o \in OrderInputs :
        o.marketplace = falabella /\ o.items = <<[sku |-> "A1", quantity |-> 1]>>}

\* The deliveries are numbered in the order of their arrival.
ArrivesNext(d) == d = "r1" \/ hook["r1"].pc # "idle"

\* The ERP has every SKU in stock and does not know the customer yet.
InitRedelivery ==
    /\ InitErpStocked /\ InitRuns /\ InitSync /\ InitOrders
    /\ marketplaceServices = ServiceNames
    /\ erpPartners = <<>>

NextRedelivery ==
    \/ \E d \in Runs, o \in RedeliveredOrders :
          ArrivesNext(d) /\ ReceiveWebhook(d, o, ExpectedSignature(o))
    \/ \E d \in Runs : SearchPartnerByEmail(d)
    \/ \E d \in Runs : CreatePartner(d)
    \/ \E d \in Runs : SearchInvoiceContact(d)
    \/ \E d \in Runs : CreateInvoiceContact(d)
    \/ \E d \in Runs : SearchLineProduct(d)
    \/ \E d \in Runs : SearchShippingProduct(d)
    \/ \E d \in Runs : CreateSaleOrder(d)
    \/ \E d \in Runs : ConfirmSaleOrder(d)
    \/ \E d \in Runs : ReduceLine(d)
    \/ \E d \in Runs : GetStockQuant(d)
    \/ \E d \in Runs : WritePending(d)
    \/ \E d \in Runs : ApplyPending(d)
    \/ \E d \in Runs : ReduceReturns(d)
    \/ \E d \in Runs : EnqueueLine(d)
    \/ \E d \in Runs : Respond(d)

SpecRedelivery == InitRedelivery /\ [][NextRedelivery]_vars

\* C13: however often a marketplace order is delivered, the ERP holds at most
\* one sales order with its external reference.
C13_OneSalesOrderPerReference ==
    \A j \in DOMAIN erpOrders, k \in DOMAIN erpOrders :
        erpOrders[j].ref = erpOrders[k].ref => j = k

\* The jobs in the queue that a delivery added for the line at position k.
JobsOf(d, k) == {j \in DOMAIN queue : queue[j].by = d /\ queue[j].line = k}

\* C14: when the webhook of an order has been answered with success, the
\* queue holds exactly one job per line of the order, carrying the line's
\* SKU, the newStock that the reduction of that very line returned, and the
\* order's marketplace as source.
C14_OneSyncTaskPerLine ==
    \A d \in Handlers :
        LET h == hook[d] IN
        h.pc = "ok" =>
            \A k \in DOMAIN h.order.items :
                /\ Cardinality(JobsOf(d, k)) = 1
                /\ \A j \in JobsOf(d, k) :
                    /\ queue[j].data.sku = h.order.items[k].sku
                    /\ queue[j].data.newStock = <<h.stockUpdates[k].newStock>>
                    /\ queue[j].data.source = h.order.marketplace

\* C15: a webhook handler issues no ERP call itself: whatever the position of
\* the handler, it has called no ERP method and runs no stock protocol; the
\* ERP is called only from the jobs it enqueues.
C15_NoInlineErpCall ==
    \A d \in Handlers :
        /\ hook[d].calls = <<>>
        /\ run[d].pc = "idle"
        /\ \A k \in DOMAIN erpOrders : erpOrders[k].by # d

(***************************************************************************)
(* Claims about the audit log.                                             *)
(***************************************************************************)
\* C16: a failed audit-log write never makes the logged operation fail: no
\* call of the stock protocol ends in a failure whose cause is the log write
\* (checked under SpecStock).
C16_LogFailureNeverFailsOperation ==
    \A r \in Runs : run[r].pc = "failed" => run[r].reason # "LogWriteFailed"

(***************************************************************************)
(* Claims about failures of order materialization.                         *)
(***************************************************************************)
IsPrefix(a, b) == Len(a) <= Len(b) /\ SubSeq(b, 1, Len(a)) = a

\* Every record the ERP holds before a step is there after it, as it was: no
\* customer or contact is removed, no sales order is removed, changed or
\* taken back from "sale", and no stock is given back.
ErpWritesKept ==
    /\ IsPrefix(erpPartners, erpPartners')
    /\ IsPrefix(erpContacts, erpContacts')
    /\ \A k \in DOMAIN erpOrders :
        /\ k \in DOMAIN erpOrders'
        /\ erpOrders'[k].ref = erpOrders[k].ref
        /\ erpOrders'[k].lines = erpOrders[k].lines
        /\ erpOrders'[k].state \in {erpOrders[k].state, "sale"}
    /\ \A s \in Skus : erpQty'[s] <= erpQty[s]

\* C17: a step of a materialization, failing or not, leaves every ERP write
\* completed before it unchanged (no compensating write follows a failure),
\* and the step that fails reports one error for the order.
C17_NoCompensationOnFailure ==
    [][/\ ErpWritesKept
       /\ \A d \in Handlers :
            /\ hook'[d].errors = IF hook'[d].pc = "error" THEN 1 ELSE 0
            /\ hook[d].pc = "error" => hook'[d] = hook[d]]_vars

\* The materialization failed at the reduction of the second line, after the
\* sales order was confirmed and the first line was reduced.
C17_Witness ==
    \E d \in Handlers :
        /\ hook[d].pc = "error" /\ hook[d].failedAt = "reduce"
        /\ Len(hook[d].stockUpdates) = 1
        /\ OrderConfirmed(hook[d])
        /\ erpPartners # <<>>
        /\ erpQty[hook[d].order.items[1].sku] < MaxReq

(***************************************************************************)
(* The 'stock-updates' queue and StockProcessor.handleReduceStock.         *)
(***************************************************************************)
\* A queue configured to try a job again twice after its first attempt.
Attempts_Three == 1 + 2

\* defaultJobOptions.attempts of the queue.
Attempts == 1

\* The jobs of a model run.
JobSlots == {1, 2}

\* job.data of a 'reduce-stock' job for one unit of A1: with the newStock a
\* webhook handler computed, or without it (newStock undefined, <<>>).
ReduceStockInputs ==
    [name : {"reduce-stock"}, orderId : OrderIds, sku : {"A1"},
     quantity : {1}, source : OrderSources,
     newStock : {<<>>} \cup {<<n>> : n \in 0..MaxSyncQty}]

\* job.data of a 'sync-stock' job: const { sku } = job.data
SyncStockInputs == [name : {"sync-stock"}, sku : {"A1"}]

JobInputs == ReduceStockInputs \cup SyncStockInputs

\* The run of the stock protocol that the processor's job uses.
JobRun == "r1"

\* stockQueue.add('reduce-stock', data)
AddJob(data) ==
    /\ Len(queue) < Cardinality(JobSlots)
    /\ queue' = Append(queue, Enqueued(data, "api", 0))
    /\ UNCHANGED <<stockVars, syncVars, marketplaceServices, stockHook, orderVars>>

NoJobActive == \A j \in DOMAIN queue : queue[j].state # "active"

\* The queue hands the processor its oldest waiting job: the job is active
\* and one more attempt is counted.  SpecQueue follows the jobs one worker
\* processes, one at a time; SpecWorkers has the workers of the queue.
TakeJob(j) ==
    /\ queue[j].state = "waiting"
    /\ \A k \in DOMAIN queue : queue[k].state = "waiting" => j <= k
    /\ NoJobActive
    /\ fan.status = "idle"
    /\ queue' = [queue EXCEPT ![j].state = "active", ![j].attemptsMade = @ + 1]
    /\ UNCHANGED <<stockVars, syncVars, marketplaceServices, stockHook, orderVars>>

\* A test of the job's newStock by truthiness: 0 counts as not given.
NewStockGiven_Truthy(data) == data.newStock # <<>> /\ data.newStock[1] # 0

\* let finalStock = newStock; if (finalStock === undefined) ...
NewStockGiven(data) == data.newStock # <<>>

\* if (finalStock === undefined) result = await this.odooService.reduceStock(...)
JobReduceStock(j) ==
    /\ queue[j].state = "active"
    /\ queue[j].data.name = "reduce-stock"
    /\ ~NewStockGiven(queue[j].data)
    /\ SearchProductBySku(JobRun, "job", queue[j].data.sku, queue[j].data.quantity)

\* let finalStock = newStock; ... finalStock = result.newStock
FinalStock(j) ==
    IF NewStockGiven(queue[j].data) THEN queue[j].data.newStock[1]
    ELSE run[JobRun].result.newStock

\* await this.syncToAllMarketplaces(sku, finalStock, source, orderId)
JobFanOut(j) ==
    /\ queue[j].state = "active"
    /\ queue[j].data.name = "reduce-stock"
    /\ NewStockGiven(queue[j].data) \/ run[JobRun].pc = "sync"
    /\ SyncToAllMarketplaces(queue[j].data.sku, FinalStock(j), queue[j].data.source)

\* What the queue does with a job whose processor threw: another attempt
\* while attemptsMade < attempts, else the job is failed.
AfterFailure(job) ==
    [job EXCEPT !.state = IF job.attemptsMade < Attempts THEN "waiting" ELSE "failed"]

\* product.qty_available || 0, the stock getStockBySku returns
QtyAvailable(sku) == IF sku \in erpQuants THEN erpQty[sku] ELSE 0

\* A full resync that names falabella as the origin of the change.
FullSyncOrigin_Falabella == falabella

\* The origin handleSyncStock passes to the fan-out: ''
FullSyncOrigin == <<>>

\* handleSyncStock, getStockBySku threw (the search failed, the product is
\* unknown or the 'get_stock' log was not written): the catch block logs
\* 'full_sync_failed' and rethrows, the fan-out was never called.
JobReadFails(j) ==
    /\ queue[j].state = "active"
    /\ queue[j].data.name = "sync-stock"
    /\ fan.status = "idle"
    /\ \E out \in ReadOutcomes, logOk \in BOOLEAN :
        /\ out = "throw" \/ queue[j].data.sku \notin erpProducts \/ ~logOk
        /\ queue' = [queue EXCEPT ![j] = [AfterFailure(queue[j]) EXCEPT !.failedAt = "read"]]
    /\ UNCHANGED <<stockVars, syncVars, marketplaceServices, stockHook, orderVars>>

\* handleSyncStock, getStockBySku returned:
\*   await this.syncToAllMarketplaces(sku, odooStock, '')
JobFullSync(j) ==
    /\ queue[j].state = "active"
    /\ queue[j].data.name = "sync-stock"
    /\ queue[j].data.sku \in erpProducts
    /\ SyncToAllMarketplaces(queue[j].data.sku, QtyAvailable(queue[j].data.sku),
                             FullSyncOrigin)

\* The updateStock calls the fan-out of the running job has made.
RECURSIVE CallsMade(_, _)
CallsMade(a, n) == IF n = 0 THEN 0 ELSE a[n].calls + CallsMade(a, n - 1)

\* The end of handleReduceStock or handleSyncStock: reduceStock threw, or the
\* fan-out returned or threw; then the 'stock_reduction_completed' or
\* 'full_sync_completed' log and the return, or the catch block (the failure
\* log, throw).
JobEnds(j) ==
    /\ queue[j].state = "active"
    /\ \/ run[JobRun].pc = "failed"
       \/ fan.status \in {"returned", "thrown"} /\ NoneInFlight
    /\ \E logOk \in BOOLEAN :
        LET job == [queue[j] EXCEPT
                       !.reduces = IF run[JobRun].pc = "idle" THEN 0 ELSE 1,
                       !.updates = CallsMade(att, Len(att))]
        IN queue' = [queue EXCEPT ![j] =
            IF fan.status = "returned" /\ logOk
            THEN [job EXCEPT !.state = "completed"]
            ELSE [AfterFailure(job) EXCEPT !.failedAt =
                     IF run[JobRun].pc = "failed" THEN "reduce"
                     ELSE IF fan.status = "thrown" THEN "sync" ELSE "log"]]
    /\ run' = [run EXCEPT ![JobRun] = IdleRun]
    /\ fan' = IdleFan
    /\ att' = [i \in DOMAIN AVAILABLE_MARKETPLACES |-> NoAttempt]
    /\ UNCHANGED <<erpProducts, erpQuants, erpQty, erpInv, marketplaceServices, stockHook, orderVars>>

(***************************************************************************)
(* SpecQueue: 'reduce-stock' and 'sync-stock' jobs added and processed.    *)
(***************************************************************************)
InitQueue ==
    /\ InitErpStocked /\ InitRuns /\ InitSync /\ InitOrders
    /\ marketplaceServices = ServiceNames
    /\ erpPartners = <<>>

NextQueue ==
    \/ \E data \in JobInputs : AddJob(data)
    \/ \E j \in DOMAIN queue : TakeJob(j)
    \/ \E j \in DOMAIN queue : JobReduceStock(j)
    \/ GetStockQuant(JobRun)
    \/ WritePending(JobRun)
    \/ ApplyPending(JobRun)
    \/ \E j \in DOMAIN queue : JobFanOut(j)
    \/ \E j \in DOMAIN queue : JobReadFails(j)
    \/ \E j \in DOMAIN queue : JobFullSync(j)
    \/ \E i \in DOMAIN AVAILABLE_MARKETPLACES : UpdateStockSettles(i)
    \/ \E j \in DOMAIN queue : JobEnds(j)

SpecQueue == InitQueue /\ [][NextQueue]_vars

(***************************************************************************)
(* Claims about the queue (checked under SpecQueue).                       *)
(***************************************************************************)
\* C18: no job is attempted more than once, and a job whose processor failed
\* stays failed: the queue never hands it to the processor again.
C18_FailedJobNeverRetried ==
    [][\A j \in DOMAIN queue :
            /\ queue'[j].attemptsMade <= 1
            /\ queue[j].state = "failed" =>
                    queue'[j].state = "failed" /\ queue'[j].attemptsMade = 1]_vars

\* A job has failed and the processor has gone on to the job after it.
C18_Witness ==
    \E j \in DOMAIN queue, k \in DOMAIN queue :
        /\ j < k
        /\ queue[j].state = "failed" /\ queue[j].attemptsMade = 1
        /\ queue[k].state = "completed"

(***************************************************************************)
(* Claims about targets without an adapter (checked under SpecSync).       *)
(***************************************************************************)
\* The targets of the current fan-out that the registry has no service for.
Unconfigured ==
    {i \in TargetsToSync(fan.origin) : AVAILABLE_MARKETPLACES[i] \notin marketplaceServices}

IsReduceStock(call) == call[1] = "reduceStock"

\* The reduceStock calls of a handler that have returned or thrown, in order.
ReduceCalls(h) == SelectSeq(h.calls, IsReduceStock)

\* processMarketplaceOrder has returned to the handler.
Materialized(h) == h.pc \in {"enqueue", "ok"} \/ h.failedAt \in {"enqueue", "respond"}

\* C20: the reduceStock calls of an order are, in order, one call per line
\* item with the line's SKU and quantity: never more calls than lines, never
\* a call for the shipping line, and one call for every line once the
\* materialization has succeeded; the call in progress is the one of the next
\* line.
C20_OneReductionPerLine ==
    \A d \in Handlers :
        LET h == hook[d]
            items == h.order.items
            reduces == ReduceCalls(h)
        IN  /\ Len(reduces) <= Len(items)
            /\ \A k \in DOMAIN reduces :
                /\ reduces[k] = <<"reduceStock", items[k].sku, items[k].quantity>>
                /\ reduces[k][2] # ShippingSku(h.order.marketplace)
            /\ Materialized(h) => Len(reduces) = Len(items)
            /\ run[d].pc # "idle" =>
                /\ h.pc = "reduce" /\ h.i = Len(reduces) + 1
                /\ run[d].sku = items[h.i].sku
                /\ run[d].quantity = items[h.i].quantity

\* An order of two lines with different quantities and a shipping line has
\* been materialized and answered.
C20_Witness ==
    \E d \in Handlers :
        /\ hook[d].pc = "ok"
        /\ Len(hook[d].order.items) = 2
        /\ hook[d].order.items[1].quantity # hook[d].order.items[2].quantity
        /\ Len(hook[d].orderLines) = 3
        /\ Len(ReduceCalls(hook[d])) = 2

(***************************************************************************)
(* Claims about the shipping line (checked under SpecOrder).               *)
(***************************************************************************)
HasShippingLine(lines) == \E k \in DOMAIN lines : lines[k].kind = "shipping"

\* The handler looked the shipping product up and got none.
ShippingUnresolved(h) ==
    /\ \E k \in DOMAIN h.calls : h.calls[k][1] = "searchShippingProduct"
    /\ ~HasShippingLine(h.orderLines)

\* C21: a shipping lookup that fails does not abort the order: the handler is
\* never stopped at the lookup, it goes on to create the sales order, and the
\* sales order it creates has the item lines and no shipping line.
C21_ShippingLookupNotFatal ==
    \A d \in Handlers :
        LET h == hook[d] IN
        ShippingUnresolved(h) =>
            /\ h.failedAt # "shipping"
            /\ h.calls[Len(h.calls)][1] = "searchShippingProduct" => h.pc = "create"
            /\ Len(h.orderLines) = Len(h.order.items)
            /\ h.saleOrderId \in DOMAIN erpOrders =>
                    erpOrders[h.saleOrderId].lines = h.orderLines

\* An order with a shipping fee whose shipping product was not found has been
\* created, confirmed, reduced and answered with success.
C21_Witness ==
    \E d \in Handlers :
        /\ hook[d].order.shipping
        /\ ShippingUnresolved(hook[d])
        /\ hook[d].pc = "ok"
        /\ OrderConfirmed(hook[d])
        /\ ~HasShippingLine(erpOrders[hook[d].saleOrderId].lines)
        /\ Len(hook[d].stockUpdates) = Len(hook[d].order.items)


(***************************************************************************)
(* C22: a 'sync-stock' job fans out the ERP's current stock of its SKU     *)
(* with no origin, so that every marketplace of the registry is a target   *)
(* (updateStock was invoked once on each); a job whose stock read failed   *)
(* is failed and has invoked updateStock on nothing.                       *)
(***************************************************************************)
IsSyncStock(j) == queue[j].data.name = "sync-stock"

C22_FullResyncReadsThenFansOut ==
    \A j \in DOMAIN queue : IsSyncStock(j) =>
        /\ queue[j].state = "active" /\ fan.status # "idle" =>
              /\ fan.sku = queue[j].data.sku
              /\ fan.newStock = QtyAvailable(queue[j].data.sku)
              /\ \A i \in DOMAIN AVAILABLE_MARKETPLACES :
                    /\ att[i].calls = 1
                    /\ att[i].args = UpdateStockArgs(fan.sku, fan.newStock)
        /\ queue[j].failedAt = "read" =>
              /\ queue[j].state = "failed"
              /\ queue[j].updates = 0

\* A full resync has failed at its stock read, and the fan-out of another
\* one has returned after a call to every marketplace.
C22_Witness ==
    \E j, k \in DOMAIN queue :
        /\ IsSyncStock(k) /\ queue[k].failedAt = "read"
        /\ IsSyncStock(j) /\ queue[j].state = "active"
        /\ fan.status = "returned"
        /\ CallsMade(att, Len(att)) = Len(AVAILABLE_MARKETPLACES)


(***************************************************************************)
(* C23: the synchronisation stage writes nothing to the ERP: from the      *)
(* call of the fan-out to the end of the job, whichever updateStock fails, *)
(* the ERP's products, stock records, quantities and inventory log stay    *)
(* as they were.                                                           *)
(***************************************************************************)
C23_FanOutWritesNothingToErp ==
    [][fan.status # "idle" => UNCHANGED <<erpProducts, erpQuants, erpQty, erpInv>>]_vars

\* The fan-out of a job that reduced the ERP stock has returned with a
\* target whose updateStock failed, and the ERP still holds the reduced stock.
C23_Witness ==
    /\ fan.status = "returned"
    /\ run[JobRun].pc = "sync"
    /\ \E i \in DOMAIN att : att[i].calls = 1 /\ att[i].state = "failure"
    /\ erpQty[fan.sku] = fan.newStock
    /\ fan.newStock < MaxQty


(***************************************************************************)
(* SpecWorkers: the workers of the 'stock-updates' queue.  StockProcessor  *)
(* registers three named handlers on the one queue; @nestjs/bull hands     *)
(* each to Bull's queue.process(name, concurrency, handler), which starts  *)
(* `concurrency` workers on the queue for that call.  A worker takes the   *)
(* next waiting job of the queue, whatever its name, and runs the handler  *)
(* registered under the job's name: the concurrencies of the named         *)
(* handlers of one queue add up.                                           *)
(***************************************************************************)
MaxJobs == 4

JobNames == {"reduce-stock", "update-marketplace", "sync-stock"}

\* @Process({ name, concurrency })
Concurrency(name) ==
    CASE name = "reduce-stock" -> 1
      [] name = "update-marketplace" -> 2
      [] name = "sync-stock" -> 1

\* The workers the three registrations start on the queue.
Workers ==
    Concurrency("reduce-stock") + Concurrency("update-marketplace")
        + Concurrency("sync-stock")

ActiveJobs == {j \in DOMAIN queue : queue[j].state = "active"}

ActiveNamed(name) == {j \in ActiveJobs : queue[j].data.name = name}

\* this.stockQueue.add(name, { sku, ... })
AddNamedJob(name) ==
    /\ Len(queue) < MaxJobs
    /\ queue' = Append(queue, Enqueued([name |-> name, sku |-> "A1"], "api", 0))
    /\ UNCHANGED <<stockVars, syncVars, marketplaceServices, stockHook, orderVars>>

\* A free worker takes the oldest waiting job.
WorkerTakes(j) ==
    /\ queue[j].state = "waiting"
    /\ \A k \in DOMAIN queue : queue[k].state = "waiting" => j <= k
    /\ Cardinality(ActiveJobs) < Workers
    /\ queue' = [queue EXCEPT ![j].state = "active", ![j].attemptsMade = @ + 1]
    /\ UNCHANGED <<stockVars, syncVars, marketplaceServices, stockHook, orderVars>>

\* The handler of an active job returns or throws, and its worker is free.
WorkerDone(j) ==
    /\ queue[j].state = "active"
    /\ \E ok \in BOOLEAN :
        queue' = [queue EXCEPT ![j] =
            IF ok THEN [queue[j] EXCEPT !.state = "completed"]
            ELSE AfterFailure(queue[j])]
    /\ UNCHANGED <<stockVars, syncVars, marketplaceServices, stockHook, orderVars>>

InitWorkers == InitQueue

NextWorkers ==
    \/ \E name \in JobNames : AddNamedJob(name)
    \/ \E j \in DOMAIN queue : WorkerTakes(j)
    \/ \E j \in DOMAIN queue : WorkerDone(j)

SpecWorkers == InitWorkers /\ [][NextWorkers]_vars

(***************************************************************************)
(* C24: at any time at most 2 'update-marketplace' jobs and at most 1      *)
(* 'reduce-stock' job of the 'stock-updates' queue are being processed.    *)
(***************************************************************************)
C24_ConcurrencyPerName ==
    /\ Cardinality(ActiveNamed("update-marketplace")) <= 2
    /\ Cardinality(ActiveNamed("reduce-stock")) <= 1


(***************************************************************************)
(* SpecSigned: one handler receives deliveries of a falabella order whose  *)
(* signature header is the sender's or a forged one.                       *)
(***************************************************************************)
NextSigned ==
    \/ \E d \in Handlers, o \in RedeliveredOrders :
          \E signature \in Signatures(o) : ReceiveWebhook(d, o, signature)
    \/ \E d \in Handlers : SearchPartnerByEmail(d)
    \/ \E d \in Handlers : CreatePartner(d)
    \/ \E d \in Handlers : SearchInvoiceContact(d)
    \/ \E d \in Handlers : CreateInvoiceContact(d)
    \/ \E d \in Handlers : SearchLineProduct(d)
    \/ \E d \in Handlers : SearchShippingProduct(d)
    \/ \E d \in Handlers : CreateSaleOrder(d)
    \/ \E d \in Handlers : ConfirmSaleOrder(d)
    \/ \E d \in Handlers : ReduceLine(d)
    \/ \E d \in Handlers : GetStockQuant(d)
    \/ \E d \in Handlers : WritePending(d)
    \/ \E d \in Handlers : ApplyPending(d)
    \/ \E d \in Handlers : ReduceReturns(d)
    \/ \E d \in Handlers : EnqueueLine(d)
    \/ \E d \in Handlers : Respond(d)

SpecSigned == InitRedelivery /\ [][NextSigned]_vars

(***************************************************************************)
(* C25: an order webhook whose signature does not validate is rejected     *)
(* before any ERP call and before any job: its handler makes no ERP call   *)
(* and adds no job to the queue.                                           *)
(***************************************************************************)
C25_InvalidSignatureRejected ==
    \A d \in Handlers :
        /\ hook[d].pc # "idle"
        /\ ~ValidateWebhookSignature(hook[d].order, hook[d].signature)
        => /\ hook[d].calls = <<>>
           /\ \A j \in DOMAIN queue : queue[j].by # d


(***************************************************************************)
(* C26: when every reduceStock call made on a SKU has returned success,    *)
(* however the callers interleaved, the ERP quantity of the SKU is its     *)
(* initial quantity minus the sum of the quantities reduced.               *)
(***************************************************************************)
\* The reduceStock calls started on SKU s.
ReduceCallsOn(s) == {r \in Runs : run[r].pc # "idle" /\ run[r].sku = s}

\* reduceStock returned { success: true, ... } to its caller.
ReturnedSuccess(rec) == rec.kind # "increase" /\ rec.pc \in {"sync", "done"}

RECURSIVE SumQuantity(_)
SumQuantity(calls) ==
    IF calls = {} THEN 0
    ELSE LET r == CHOOSE c \in calls : TRUE
         IN run[r].quantity + SumQuantity(calls \ {r})

\* The quantity before the first of the calls: the largest quantity a caller
\* found at its entry, since the calls only reduce.
QuantityBefore(calls) ==
    CHOOSE q \in {run[r].qtyBefore : r \in calls} :
        \A r \in calls : run[r].qtyBefore <= q

C26_NoReductionLost ==
    \A s \in Skus :
        LET calls == ReduceCallsOn(s)
        IN  (calls # {} /\ \A r \in calls : ReturnedSuccess(run[r]))
            => erpQty[s] = QuantityBefore(calls) - SumQuantity(calls)


(***************************************************************************)
(* SpecConcurrent: two falabella orders, each for one unit of A1, with no  *)
(* billing data and no shipping fee, arrive at two handlers that run       *)
(* concurrently.                                                           *)
(***************************************************************************)
\* body.payload?.OrderId of the webhook handler d receives
OrderIdOf(d) == IF d = "r1" THEN "1001" ELSE "1002"

ConcurrentOrders(d) ==
    {[o EXCEPT !.orderId = OrderIdOf(d)] :
        o \in {r \in RedeliveredOrders : ~r.billing /\ ~r.shipping}}

NextConcurrent ==
    \/ \E d \in Runs : \E o \in ConcurrentOrders(d) :
          ReceiveWebhook(d, o, ExpectedSignature(o))
    \/ \E d \in Runs : SearchPartnerByEmail(d)
    \/ \E d \in Runs : CreatePartner(d)
    \/ \E d \in Runs : SearchLineProduct(d)
    \/ \E d \in Runs : CreateSaleOrder(d)
    \/ \E d \in Runs : ConfirmSaleOrder(d)
    \/ \E d \in Runs : ReduceLine(d)
    \/ \E d \in Runs : GetStockQuant(d)
    \/ \E d \in Runs : WritePending(d)
    \/ \E d \in Runs : ApplyPending(d)
    \/ \E d \in Runs : ReduceReturns(d)
    \/ \E d \in Runs : EnqueueLine(d)
    \/ \E d \in Runs : Respond(d)

SpecConcurrent == InitRedelivery /\ [][NextConcurrent]_vars

(***************************************************************************)
(* C27: the sync jobs of a SKU are in the queue, and so delivered to every *)
(* target, in the order in which the ERP reductions they report were       *)
(* applied: reductions only lower the stock, so no job carries a larger    *)
(* quantity than a job added before it, and once the handlers have         *)
(* answered the last job of the SKU carries the ERP's current quantity.    *)
(***************************************************************************)
SyncJobsOf(s) ==
    {j \in DOMAIN queue : queue[j].data.name = "reduce-stock" /\ queue[j].data.sku = s}

C27_SyncJobsInReductionOrder ==
    \A s \in Skus : \A j, k \in SyncJobsOf(s) :
        j < k => queue[j].data.newStock[1] >= queue[k].data.newStock[1]


(***************************************************************************)
(* C28: a 'reduce-stock' job that carries newStock, 0 included, calls      *)
(* reduceStock not at all and fans out the value it carries; a job without *)
(* newStock calls reduceStock once and fans out the newStock that call     *)
(* returned.  With the single reduction per line of the webhook handler,   *)
(* whose jobs all carry newStock, each line is reduced once.               *)
(***************************************************************************)
IsReduceStockJob(j) == queue[j].data.name = "reduce-stock"

CarriesNewStock(j) == queue[j].data.newStock # <<>>

C28_JobReducesOnlyWithoutNewStock ==
    \A j \in DOMAIN queue : IsReduceStockJob(j) =>
        /\ CarriesNewStock(j) =>
              /\ queue[j].reduces = 0
              /\ queue[j].state = "active" =>
                    /\ run[JobRun].pc = "idle"
                    /\ fan.status # "idle" => fan.newStock = queue[j].data.newStock[1]
        /\ ~CarriesNewStock(j) =>
              /\ queue[j].state = "completed" => queue[j].reduces = 1
              /\ queue[j].state = "active" /\ fan.status # "idle" =>
                    /\ run[JobRun].pc = "sync"
                    /\ fan.newStock = run[JobRun].result.newStock

\* A job without newStock has completed after its one reduceStock call, and
\* the fan-out of a job that carries newStock 0 has returned with 0 pushed
\* and the ERP left at the quantity the first job reduced it to.
C28_Witness ==
    \E j, k \in DOMAIN queue :
        /\ IsReduceStockJob(j) /\ ~CarriesNewStock(j)
        /\ queue[j].state = "completed" /\ queue[j].reduces = 1
        /\ IsReduceStockJob(k) /\ queue[k].data.newStock = <<0>>
        /\ queue[k].state = "active" /\ fan.status = "returned" /\ fan.newStock = 0
        /\ erpQty[fan.sku] = MaxQty - 1


(***************************************************************************)
(* C29: the sync jobs of an order are added only after the reductions of   *)
(* all its lines have succeeded: a handler with a job in the queue has got *)
(* a stock update for every line from the materialization, and a handler   *)
(* whose materialization failed at any step, the reduction of a later line *)
(* included, has added no job.                                             *)
(***************************************************************************)
JobsBy(d) == {j \in DOMAIN queue : queue[j].by = d}

C29_JobsOnlyAfterAllReductions ==
    \A d \in Handlers :
        LET h == hook[d] IN
        /\ JobsBy(d) # {} =>
              /\ Materialized(h)
              /\ Len(h.stockUpdates) = Len(h.order.items)
              /\ Len(ReduceCalls(h)) = Len(h.order.items)
        /\ h.pc = "error" /\ ~Materialized(h) => JobsBy(d) = {}

\* The reduction of the second line failed after the first line was reduced
\* in the ERP, and the handler has added no job.
C29_Witness ==
    \E d \in Handlers :
        LET h == hook[d] IN
        /\ h.pc = "error" /\ h.failedAt = "reduce"
        /\ Len(h.stockUpdates) = 1
        /\ erpQty[h.order.items[1].sku] < MaxReq
        /\ JobsBy(d) = {}


(***************************************************************************)
(* SpecErpHook: the ERP's stock-change webhook and the                     *)
(* 'update-marketplace' jobs it adds.                                      *)
(***************************************************************************)
MaxHooks == 2

\* 'odoo', the source of the jobs the stock-change webhook adds
odoo == <<111, 100, 111, 111>>

\* const { sku, quantity, action } = payload
StockChangePayloads ==
    [sku : {"A1"}, quantity : 0..MaxSyncQty, action : {"stock_updated", "stock_moved"}]

\* this.stockQueue.add('update-marketplace', { sku, quantity, marketplace: 'falabella', source: 'odoo' })
UpdateMarketplaceJob(payload) ==
    [name |-> "update-marketplace", sku |-> payload.sku, quantity |-> payload.quantity,
     marketplace |-> falabella, source |-> odoo]

\* What is kept of a handled webhook, for the record.
Handled(payload, failedAt, added) ==
    [payload |-> payload, failedAt |-> failedAt, added |-> added]

\* handleStockChange: the 'webhook_received' log, then the add when the
\* action is 'stock_updated', then the answer.  There is no try block: a
\* rejected log write or add ends the request with an error.
HandleStockChange(payload) ==
    /\ Len(stockHook) < MaxHooks
    /\ \E logOk \in BOOLEAN, addOk \in BOOLEAN :
        LET k == Len(stockHook) + 1
            adds == logOk /\ payload.action = "stock_updated" /\ addOk
        IN  /\ stockHook' = Append(stockHook,
                    IF ~logOk THEN Handled(payload, "log", 0)
                    ELSE IF payload.action # "stock_updated" THEN Handled(payload, "none", 0)
                    ELSE IF addOk THEN Handled(payload, "none", 1)
                    ELSE Handled(payload, "add", 0))
            /\ queue' = IF adds
                        THEN Append(queue, Enqueued(UpdateMarketplaceJob(payload), "odoo", k))
                        ELSE queue
    /\ UNCHANGED <<stockVars, syncVars, marketplaceServices, orderVars>>

\* The position of a marketplace name in AVAILABLE_MARKETPLACES.
IndexOf(marketplace) ==
    CHOOSE i \in DOMAIN AVAILABLE_MARKETPLACES : AVAILABLE_MARKETPLACES[i] = marketplace

IsUpdateMarketplace(j) == queue[j].data.name = "update-marketplace"

\* handleUpdateMarketplace up to its first await: without a service for the
\* marketplace it returns at once, otherwise updateStock has been invoked.
JobUpdateMarketplace(j) ==
    /\ queue[j].state = "active"
    /\ IsUpdateMarketplace(j)
    /\ \A i \in DOMAIN att : att[i] = NoAttempt
    /\ LET i == IndexOf(queue[j].data.marketplace)
       IN att' = [att EXCEPT ![i] = FirstStep(i, queue[j].data.sku, queue[j].data.quantity)]
    /\ UNCHANGED <<stockVars, fan, restVars>>

\* The end of handleUpdateMarketplace: without a service the handler has
\* returned { success: false }; after updateStock and the success log it
\* returns; from the catch block it throws.
JobUpdateEnds(j) ==
    /\ queue[j].state = "active"
    /\ IsUpdateMarketplace(j)
    /\ LET a == att[IndexOf(queue[j].data.marketplace)]
           job == [queue[j] EXCEPT !.updates = CallsMade(att, Len(att))]
       IN /\ a.state \in {"success", "failure", "rejected"}
          /\ queue' = [queue EXCEPT ![j] =
                IF a.state = "success" \/ a.calls = 0
                THEN [job EXCEPT !.state = "completed"]
                ELSE [AfterFailure(job) EXCEPT !.failedAt = "update"]]
    /\ att' = [i \in DOMAIN AVAILABLE_MARKETPLACES |-> NoAttempt]
    /\ UNCHANGED <<stockVars, fan, marketplaceServices, stockHook, orderVars>>

NextErpHook ==
    \/ \E payload \in StockChangePayloads : HandleStockChange(payload)
    \/ \E j \in DOMAIN queue : TakeJob(j)
    \/ \E j \in DOMAIN queue : JobUpdateMarketplace(j)
    \/ \E i \in DOMAIN AVAILABLE_MARKETPLACES : UpdateStockSettles(i)
    \/ \E j \in DOMAIN queue : JobUpdateEnds(j)

SpecErpHook == InitQueue /\ [][NextErpHook]_vars

(***************************************************************************)
(* C30: a stock-change webhook of the ERP adds one 'update-marketplace'    *)
(* job, for the sku and the quantity notified, when its action is          *)
(* 'stock_updated' and the queue took the job, and no job for another      *)
(* action; a job of that name, once processed, has invoked updateStock     *)
(* once, on the adapter of the marketplace it names and with its sku and   *)
(* quantity, and the ERP's stock is as it was.                             *)
(***************************************************************************)
UpdateJobOnNamedAdapter ==
    /\ \A j \in DOMAIN queue : IsUpdateMarketplace(j) =>
        /\ queue[j].state \in {"completed", "failed"} => queue[j].updates = 1
        /\ queue[j].state = "active" =>
            \A i \in DOMAIN att : att[i].calls > 0 =>
                /\ i = IndexOf(queue[j].data.marketplace)
                /\ att[i].calls = 1
                /\ att[i].args = UpdateStockArgs(queue[j].data.sku, queue[j].data.quantity)
    /\ erpQty = [s \in Skus |-> MaxQty]
    /\ erpInv = [s \in Skus |-> <<>>]

C30_StockChangeWebhook ==
    /\ \A k \in DOMAIN stockHook :
        LET w == stockHook[k]
            jobs == JobsOf("odoo", k)
        IN  /\ w.failedAt # "add" =>
                Cardinality(jobs) = IF w.payload.action = "stock_updated" THEN 1 ELSE 0
            /\ \A j \in jobs :
                /\ IsUpdateMarketplace(j)
                /\ queue[j].data.sku = w.payload.sku
                /\ queue[j].data.quantity = w.payload.quantity
    /\ UpdateJobOnNamedAdapter

====
